---- MODULE Spec2Model ----
(***************************************************************************)
(* Model of the selection-to-table pipeline of excel-wizard:               *)
(*   - src/src/components/range-selector.tsx  (cell notation, range text)  *)
(*   - src/src/lib/selection.ts               (applySelection and helpers) *)
(*   - src/src/lib/azure-openai.ts            (normaliseHeaderRow)         *)
(*                                                                         *)
(* Text is modelled as a sequence of UTF-16 code units (naturals), so that *)
(* formatting, trimming, quoting and decoding are computed as the code     *)
(* computes them.  A cell value is a record [t, s]: t is the JavaScript    *)
(* type of the value ("null", "undefined", "str", "num") and s is          *)
(* String(value) for strings and numbers.                                  *)
(***************************************************************************)
EXTENDS Integers, Sequences, FiniteSets, TLC

VARIABLES
    cell,               \* SpecNotation: the (row, col) given to cellToExcelNotation
    notation,           \* SpecNotation: its result, <<>> while not yet computed
    rawWorkbook,        \* Spec: the Parsed Workbook (fileName, sheets with name, matrix, columns)
    selection,          \* Spec: the Range Selector's SelectionState {start, end}
    selectionConfig,    \* Spec: the Workbook Selection Config
    typed,              \* Spec: the rectangle a range string was written from (known = FALSE: none)
    processedWorkbook,  \* Spec: applySelection(rawWorkbook, selectionConfig)
    nameInput,          \* SpecNaming: the arguments given to normaliseTableName
    tableName,          \* SpecNaming: its result, <<>> while not yet computed
    duckReady,          \* SpecApp: App state duckReady
    duckError,          \* SpecApp: App state duckError (NoError = null)
    isProcessing,       \* SpecApp: App state isProcessing
    selectedSheetName,  \* SpecApp: App state selectedSheetName (<<>> = null)
    tableMap,           \* SpecApp: App state tableMap, sheet name -> table name
    parsing,            \* SpecApp: the files parseExcel is reading
    syncs,              \* SpecApp: the handler calls suspended in syncTablesWithProcessed
    drops,              \* SpecApp: the table names with an un-awaited dropTable pending
    tables,             \* SpecApp: the names of the tables the engine holds
    selectedSheet,      \* SpecApp: Range Selector state selectedSheet
    isSelecting,        \* SpecApp: Range Selector state isSelecting
    firstRowIsHeader,   \* SpecApp: Range Selector state firstRowIsHeader
    lastEvent,          \* SpecApp history: the last user event or handler completion
    notified,           \* SpecApp history: the onConfigChange calls since lastEvent
    events,             \* SpecApp: the user events so far
    last,               \* SpecApp history: the handler call that completed last
    dbInstancePromise,  \* SpecEngine: module variable dbInstancePromise ("null" while unset)
    connectionPromise,  \* SpecEngine: module variable connectionPromise ("null" while unset)
    opening,            \* SpecEngine: where the async body that opens the connection is
    instantiations,     \* SpecEngine: the calls of instantiateDuckDB so far
    connections,        \* SpecEngine: the calls of db.connect() so far
    callers             \* SpecEngine: each caller's function and where it waits

namingVars == <<nameInput, tableName>>
appVars == <<duckReady, duckError, isProcessing, selectedSheetName, tableMap, parsing, syncs,
             drops, tables, selectedSheet, isSelecting, firstRowIsHeader, lastEvent, notified,
             events, last>>
engineVars == <<dbInstancePromise, connectionPromise, opening, instantiations, connections,
                callers>>
vars == <<cell, notation, rawWorkbook, selection, selectionConfig, typed, processedWorkbook,
          namingVars, appVars, engineVars>>

-----------------------------------------------------------------------------
(* Bounds of the model *)

\* cellToExcelNotation is explored for columns 0..MaxCol (702 is the first
\* three-letter column) and rows 0..MaxRow (row + 1 reaches two digits).
MaxCol == 703
MaxRow == 9
\* Range strings written from coordinates use rows and columns 0..MaxCoord;
\* the sample matrices have at most 3 rows and 3 columns, so 3 lies outside.
MaxCoord == 3

-----------------------------------------------------------------------------
(* JavaScript values and text *)

Max(a, b) == IF a >= b THEN a ELSE b
Min(a, b) == IF a <= b THEN a ELSE b

Null == [t |-> "null", s |-> <<>>]
Undefined == [t |-> "undefined", s |-> <<>>]
Str(text) == [t |-> "str", s |-> text]

\* array[index] with a 0-based index: undefined outside the array
At(array, index) == IF index + 1 \in DOMAIN array THEN array[index + 1] ELSE Undefined

\* value ?? null
NullishToNull(value) == IF value.t \in {"null", "undefined"} THEN Null ELSE value

\* String(n) / `${n}` for a non-negative integer
RECURSIVE NumberToString(_)
NumberToString(n) == IF n < 10 THEN <<48 + n>> ELSE NumberToString(n \div 10) \o <<48 + (n % 10)>>

Num(n) == [t |-> "num", s |-> NumberToString(n)]

\* white space removed by String.prototype.trim (tab, LF, VT, FF, CR, space)
IsSpace(ch) == ch \in {9, 10, 11, 12, 13, 32}

RECURSIVE TrimStart(_)
TrimStart(text) ==
    IF text # <<>> /\ IsSpace(Head(text)) THEN TrimStart(Tail(text)) ELSE text

RECURSIVE TrimEnd(_)
TrimEnd(text) ==
    IF text # <<>> /\ IsSpace(text[Len(text)])
    THEN TrimEnd(SubSeq(text, 1, Len(text) - 1))
    ELSE text

Trim(text) == TrimEnd(TrimStart(text))

\* parts.join(sep)
RECURSIVE Join(_, _)
Join(parts, sep) ==
    IF parts = <<>> THEN <<>>
    ELSE IF Len(parts) = 1 THEN parts[1]
    ELSE parts[1] \o sep \o Join(Tail(parts), sep)

-----------------------------------------------------------------------------
(* range-selector.tsx: cell notation and range text *)

NoCell == [row |-> -1, col |-> -1]      \* a null CellPosition

RECURSIVE ColNameNoCarry(_, _)
ColNameNoCarry(c, colName) ==
    IF c >= 0
    THEN IF c < 26 THEN <<65 + c>> \o colName
         ELSE ColNameNoCarry(c \div 26, <<65 + (c % 26)>> \o colName)
    ELSE colName

\* the while loop of cellToExcelNotation: c is the loop variable
RECURSIVE ColName(_, _)
ColName(c, colName) ==
    IF c >= 0
    THEN ColName((c \div 26) - 1, <<65 + (c % 26)>> \o colName)
    ELSE colName

cellToExcelNotation(row, col) == ColName(col, <<>>) \o NumberToString(row + 1)

selectionToRangeUnordered(sel) ==
    IF sel.start = NoCell \/ sel.end = NoCell THEN <<>>
    ELSE cellToExcelNotation(sel.start.row, sel.start.col) \o <<58>>
            \o cellToExcelNotation(sel.end.row, sel.end.col)

selectionToRange(sel) ==
    IF sel.start = NoCell \/ sel.end = NoCell THEN <<>>
    ELSE LET startCell == cellToExcelNotation(Min(sel.start.row, sel.end.row),
                                              Min(sel.start.col, sel.end.col))
             endCell == cellToExcelNotation(Max(sel.start.row, sel.end.row),
                                            Max(sel.start.col, sel.end.col))
         IN startCell \o <<58>> \o endCell

-----------------------------------------------------------------------------
(* xlsx utils.decode_range, as called by extractRangeMatrix.  The library   *)
(* scans each cell reference once: digits accumulate the row in base 10,    *)
(* capital letters accumulate the column in base 26, every other character *)
(* is skipped, and 1 is subtracted from both.  It validates nothing and     *)
(* raises nothing for a string argument.                                    *)

RECURSIVE DecodeScan(_, _, _)
DecodeScan(cstr, R, C) ==
    IF cstr = <<>> THEN [c |-> C - 1, r |-> R - 1]
    ELSE LET cc == Head(cstr) IN
         IF cc >= 48 /\ cc <= 57 THEN DecodeScan(Tail(cstr), 10 * R + (cc - 48), C)
         ELSE IF cc >= 65 /\ cc <= 90 THEN DecodeScan(Tail(cstr), R, 26 * C + (cc - 64))
         ELSE DecodeScan(Tail(cstr), R, C)

decode_cell(cstr) == DecodeScan(cstr, 0, 0)

\* range.indexOf(":"), -1 when absent (0-based)
IndexOfColon(range) ==
    IF \E i \in DOMAIN range : range[i] = 58
    THEN (CHOOSE i \in DOMAIN range : range[i] = 58 /\ \A j \in 1..(i - 1) : range[j] # 58) - 1
    ELSE -1

decode_range(range) ==
    LET idx == IndexOfColon(range) IN
    IF idx = -1 THEN [s |-> decode_cell(range), e |-> decode_cell(range)]
    ELSE [s |-> decode_cell(SubSeq(range, 1, idx)),
          e |-> decode_cell(SubSeq(range, idx + 2, Len(range)))]

-----------------------------------------------------------------------------
(* selection.ts: the Selection Applier *)

FALLBACK_COLUMN_PREFIX == <<67, 111, 108, 117, 109, 110>>      \* "Column"

\* `${FALLBACK_COLUMN_PREFIX}_${index + 1}`
FallbackName(index) == FALLBACK_COLUMN_PREFIX \o <<95>> \o NumberToString(index + 1)

clampNoUpper(value, min, max) == Max(min, value)

clamp(value, min, max) == Max(min, Min(max, value))

\* the header name of position index: trimmed text, or the fallback when blank
HeaderName(raw, index) ==
    LET value == IF raw.t = "str" THEN Trim(raw.s)
                 ELSE IF raw.t \in {"null", "undefined"} THEN <<>>
                 ELSE Trim(raw.s)
    IN IF Len(value) > 0 THEN value ELSE FallbackName(index)

buildColumnsUntrimmed(headerRow, width) ==
    [i \in 1..width |->
        LET raw == At(headerRow, i - 1)
        IN IF raw.t \in {"null", "undefined"} \/ raw.s = <<>> THEN FallbackName(i - 1) ELSE raw.s]

buildColumnsFromHeaderRow(headerRow, width) ==
    [i \in 1..width |-> HeaderName(At(headerRow, i - 1), i - 1)]

buildGeneratedColumns(width) == [i \in 1..width |-> FallbackName(i - 1)]

\* matrix.reduce((acc, row) => Math.max(acc, row.length - 1), 0)
RECURSIVE MaxColOf(_, _)
MaxColOf(matrix, acc) ==
    IF matrix = <<>> THEN acc ELSE MaxColOf(Tail(matrix), Max(acc, Len(Head(matrix)) - 1))

\* matrix.reduce((max, row) => Math.max(max, row.length), 0)
RECURSIVE WidthOf(_, _)
WidthOf(matrix, acc) ==
    IF matrix = <<>> THEN acc ELSE WidthOf(Tail(matrix), Max(acc, Len(Head(matrix))))

\* the two nested for loops of extractRangeMatrix
SliceMatrix(matrix, startRow, endRow, startCol, endCol) ==
    IF endRow < startRow THEN <<>>
    ELSE [i \in 1..(endRow - startRow + 1) |->
            LET sourceRow == IF startRow + i \in DOMAIN matrix THEN matrix[startRow + i] ELSE <<>>
            IN IF endCol < startCol THEN <<>>
               ELSE [j \in 1..(endCol - startCol + 1) |->
                        NullishToNull(At(sourceRow, startCol + j - 1))]]

\* range = <<>> stands for an undefined or empty range (!range).  decode_range
\* raises nothing, so the catch branch (return matrix) is never taken.
extractRangeMatrix(matrix, range) ==
    IF range = <<>> THEN matrix
    ELSE LET decoded == decode_range(range)
             maxRow == IF Len(matrix) > 0 THEN Len(matrix) - 1 ELSE 0
             maxCol == MaxColOf(matrix, 0)
             startRow == clamp(decoded.s.r, 0, maxRow)
             endRow == clamp(decoded.e.r, 0, maxRow)
             startCol == clamp(decoded.s.c, 0, maxCol)
             endCol == clamp(decoded.e.c, 0, maxCol)
         IN SliceMatrix(matrix, startRow, endRow, startCol, endCol)

Range(seq) == {seq[i] : i \in DOMAIN seq}

\* the record built by columns.forEach: a later column of the same name
\* overwrites the entry of an earlier one
RowRecord(row, columns) ==
    [col \in Range(columns) |->
        LET index == CHOOSE i \in DOMAIN columns :
                        columns[i] = col /\ \A j \in DOMAIN columns : columns[j] = col => j <= i
        IN NullishToNull(At(row, index - 1))]

matrixToRowsAlwaysSlice(matrix, columns, headerIncluded) ==
    LET dataRows == IF matrix = <<>> THEN <<>> ELSE Tail(matrix)
    IN [r \in DOMAIN dataRows |-> RowRecord(dataRows[r], columns)]

matrixToRows(matrix, columns, headerIncluded) ==
    LET dataRows == IF headerIncluded
                    THEN (IF matrix = <<>> THEN <<>> ELSE Tail(matrix))
                    ELSE matrix
    IN [r \in DOMAIN dataRows |-> RowRecord(dataRows[r], columns)]

\* text.replace(/"/g, '""')
RECURSIVE DoubleQuotes(_)
DoubleQuotes(text) ==
    IF text = <<>> THEN <<>>
    ELSE IF Head(text) = 34 THEN <<34, 34>> \o DoubleQuotes(Tail(text))
    ELSE <<Head(text)>> \o DoubleQuotes(Tail(text))

\* the field of one value in rowsToCsv
CsvField(value) ==
    IF value.t \in {"null", "undefined"} THEN <<>>
    ELSE IF value.t = "num" THEN value.s
    ELSE IF \E i \in DOMAIN value.s : value.s[i] \in {34, 44, 10}
         THEN <<34>> \o DoubleQuotes(value.s) \o <<34>>
         ELSE value.s

rowsToCsv(columns, rows) ==
    IF Len(columns) = 0 THEN <<>>
    ELSE LET header == Join(columns, <<44>>)
             lines == [r \in DOMAIN rows |->
                        Join([c \in DOMAIN columns |-> CsvField(rows[r][columns[c]])], <<44>>)]
         IN Join(<<header>> \o lines, <<10>>)

EmptySheet(name) == [name |-> name, columns |-> <<>>, rows |-> <<>>, csv |-> <<>>]

\* sel.present = FALSE is an undefined SheetSelection; sel.range = <<>> an absent or
\* empty range; sel.firstRowIsHeader is "true", "false" or "absent".
processSheet(sheet, sel) ==
    LET trimmedRange == IF sel.present THEN Trim(sel.range) ELSE <<>>
        targetMatrix == extractRangeMatrix(sheet.matrix, trimmedRange)
        headerIncluded == ~(sel.present /\ sel.firstRowIsHeader = "false")
        width == WidthOf(targetMatrix, 0)
    IN IF Len(targetMatrix) = 0 THEN EmptySheet(sheet.name)
       ELSE IF width = 0 THEN EmptySheet(sheet.name)
       ELSE LET headerRow == targetMatrix[1]
                columns == IF headerIncluded
                           THEN buildColumnsFromHeaderRow(headerRow, width)
                           ELSE buildGeneratedColumns(width)
                rows == matrixToRows(targetMatrix, columns, headerIncluded)
            IN [name |-> sheet.name, columns |-> columns, rows |-> rows,
                csv |-> rowsToCsv(columns, rows)]

NoSelection == [present |-> FALSE, range |-> <<>>, firstRowIsHeader |-> "absent"]

SelectionOfAny(config, name) ==
    IF name \in DOMAIN config.sheets THEN config.sheets[name]
    ELSE IF DOMAIN config.sheets # {} THEN config.sheets[CHOOSE n \in DOMAIN config.sheets : TRUE]
    ELSE NoSelection

\* config.sheets?.[name]
SelectionOf(config, name) ==
    IF name \in DOMAIN config.sheets THEN config.sheets[name] ELSE NoSelection

applySelection(workbook, config) ==
    [fileName |-> workbook.fileName,
     sheets |-> [i \in DOMAIN workbook.sheets |->
                    processSheet(workbook.sheets[i], SelectionOf(config, workbook.sheets[i].name))]]

-----------------------------------------------------------------------------
(* azure-openai.ts (lib/excel): the header names of a Parsed Sheet *)

\* firstRow is headerRows[0] ?? [] and finalWidth the width of the sheet's extent
normaliseHeaderRow(firstRow, finalWidth) ==
    [i \in 1..finalWidth |->
        LET raw == At(firstRow, i - 1)
            value == IF raw.t = "str" THEN Trim(raw.s)
                     ELSE IF raw.t \in {"null", "undefined"} THEN <<>>
                     ELSE Trim(raw.s)
        IN IF Len(value) > 0 THEN value ELSE FallbackName(i - 1)]

\* the sheet entry parseExcel builds: name, matrix and the default header names
ParsedSheet(name, matrix) ==
    [name |-> name,
     matrix |-> matrix,
     columns |-> normaliseHeaderRow(IF matrix = <<>> THEN <<>> ELSE matrix[1], WidthOf(matrix, 0))]

-----------------------------------------------------------------------------
(* App.tsx *)

\* createDefaultSelectionConfig
createDefaultSelectionConfig(parsed) ==
    [sheets |-> [name \in {parsed.sheets[i].name : i \in DOMAIN parsed.sheets} |->
                    [present |-> TRUE, range |-> <<>>, firstRowIsHeader |-> "true"]]]

\* String.prototype.toLowerCase on one character: A-Z, and the KELVIN SIGN (U+212A), whose
\* lower case is the ASCII letter k; the other characters of the model have no lower case
LowerOf(ch) ==
    IF ch >= 65 /\ ch <= 90 THEN ch + 32
    ELSE IF ch = 8490 THEN 107
    ELSE ch

toLowerCase(text) == [i \in DOMAIN text |-> LowerOf(text[i])]

\* fileName.replace(/\.[^/.]+$/, ""): the last "." and what follows it are removed when
\* one or more characters follow it and none of them is "/"
StripExtension(fileName) ==
    LET dots == {i \in DOMAIN fileName : fileName[i] = 46}
    IN IF dots = {} THEN fileName
       ELSE LET lastDot == CHOOSE i \in dots : \A j \in dots : j <= i
            IN IF /\ lastDot < Len(fileName)
                  /\ \A j \in (lastDot + 1)..Len(fileName) : fileName[j] # 47
               THEN SubSeq(fileName, 1, lastDot - 1)
               ELSE fileName

\* [a-z0-9]
IsLowerAlnum(ch) == (ch >= 97 /\ ch <= 122) \/ (ch >= 48 /\ ch <= 57)

ReplaceEachNonAlnum(text) == [i \in DOMAIN text |-> IF IsLowerAlnum(text[i]) THEN text[i] ELSE 95]

\* text.replace(/[^a-z0-9]+/g, "_"): every run of other characters becomes one "_"
RECURSIVE ReplaceNonAlnumRuns(_)
ReplaceNonAlnumRuns(text) ==
    IF text = <<>> THEN <<>>
    ELSE IF IsLowerAlnum(Head(text)) THEN <<Head(text)>> \o ReplaceNonAlnumRuns(Tail(text))
    ELSE IF Len(text) > 1 /\ ~IsLowerAlnum(text[2]) THEN ReplaceNonAlnumRuns(Tail(text))
    ELSE <<95>> \o ReplaceNonAlnumRuns(Tail(text))

\* text.replace(/^_+|_+$/g, "")
RECURSIVE StripUnderscores(_)
StripUnderscores(text) ==
    IF text # <<>> /\ Head(text) = 95 THEN StripUnderscores(Tail(text))
    ELSE IF text # <<>> /\ text[Len(text)] = 95 THEN StripUnderscores(SubSeq(text, 1, Len(text) - 1))
    ELSE text

\* `sheet_${index + 1}`
SheetFallback(index) == <<115, 104, 101, 101, 116, 95>> \o NumberToString(index + 1)

normaliseTableName(fileName, sheetName, index) ==
    LET baseName == StripUnderscores(ReplaceNonAlnumRuns(toLowerCase(
                        StripExtension(fileName) \o <<95>>
                            \o (IF sheetName # <<>> THEN sheetName ELSE SheetFallback(index)))))
    IN IF Len(baseName) > 0 THEN baseName ELSE SheetFallback(index)

-----------------------------------------------------------------------------
(* Inputs *)

FileName == <<98, 111, 111, 107, 46, 120, 108, 115, 120>>       \* "book.xlsx"
SheetName == <<83, 104, 101, 101, 116, 49>>                     \* "Sheet1"

TName == <<78, 97, 109, 101>>            \* "Name"
TAge == <<65, 103, 101>>                 \* "Age"
TAnn == <<65, 110, 110>>                 \* "Ann"
TBo == <<66, 111>>                       \* "Bo"
TComma == <<120, 44, 121>>               \* "x,y"
TQuote == <<113, 34, 114>>               \* q"r
TNewline == <<108, 10, 109>>             \* "l\nm"
TBlank == <<32, 32>>                     \* "  "
TPadded == <<32, 80, 97, 100, 32>>       \* " Pad "
TColumn2 == <<67, 111, 108, 117, 109, 110, 95, 50>>     \* "Column_2"

Letter(k) == Str(<<96 + k>>)             \* "a", "b", ...

\* the matrix of the scenarios: a header row and two data rows
ScenarioMatrix == << <<Str(TName), Str(TAge)>>, <<Str(TAnn), Num(30)>>, <<Str(TBo), Num(25)>> >>

SampleMatrices == {
    ScenarioMatrix,
    \* a sheet with no rows, and a sheet with zero-width rows only
    << >>,
    << <<>>, <<>> >>,
    \* nine different cells
    << <<Letter(1), Letter(2), Letter(3)>>, <<Letter(4), Letter(5), Letter(6)>>,
       <<Letter(7), Letter(8), Letter(9)>> >>,
    \* the same header twice, jagged rows
    << <<Letter(1), Letter(1), Letter(2)>>, <<Num(1)>>, <<Null, Num(2), Num(3)>> >>,
    \* texts with a comma, a quote, a newline; blank and padded headers
    << <<Str(TComma), Str(TBlank), Null>>, <<Str(TQuote), Str(TNewline), Num(7)>> >>,
    << <<Str(TPadded), Str(<<>>), Num(5)>>, <<Str(TComma), Null, Str(TBlank)>> >>,
    \* a header that reads like the fallback name of its neighbour
    << <<Str(TColumn2), Null>>, <<Num(1), Num(2)>> >>
}

SampleWorkbooks ==
    {[fileName |-> FileName, sheets |-> <<ParsedSheet(SheetName, m)>>] : m \in SampleMatrices}

\* range texts as a caller may write them
SampleRangeTexts == {
    <<104, 101, 108, 108, 111>>,                 \* "hello"
    <<97, 49, 58, 98, 50>>,                      \* "a1:b2"
    <<66>>,                                      \* "B"
    <<49, 50>>,                                  \* "12"
    <<65, 49, 58>>,                              \* "A1:"
    <<32, 32>>,                                  \* "  "
    <<32, 65, 49, 58, 66, 50, 32>>               \* " A1:B2 "
}

HeaderFlags == {"true", "false", "absent"}

NoRect == [known |-> FALSE, r1 |-> 0, c1 |-> 0, r2 |-> 0, c2 |-> 0]
NoDrag == [start |-> NoCell, end |-> NoCell]

\* the matrix of the workbook's sheet, and the cells the Range Selector renders for it
TheSheet == rawWorkbook.sheets[1]
TheSelection == SelectionOf(selectionConfig, TheSheet.name)
TheProcessed == processedWorkbook.sheets[1]
GridCells ==
    {[row |-> r, col |-> c] : r \in 0..(Len(TheSheet.matrix) - 1),
                              c \in 0..(WidthOf(TheSheet.matrix, 0) - 1)}

\* the values the variables of one specification keep under the others
NoNameInput == [fileName |-> <<>>, sheetName |-> <<>>, index |-> 0]
EngineIdle ==
    /\ dbInstancePromise = "null" /\ connectionPromise = "null" /\ opening = "idle"
    /\ instantiations = 0 /\ connections = 0
    /\ callers = <<>>
NamingIdle == nameInput = NoNameInput /\ tableName = <<>>

NoEvent == [kind |-> "none", stored |-> <<>>]
NoCall == [kind |-> "none", ok |-> FALSE, peers |-> {}]
AppIdle ==
    /\ duckReady = FALSE /\ duckError = Null /\ isProcessing = FALSE
    /\ selectedSheetName = <<>> /\ tableMap = <<>>
    /\ parsing = <<>> /\ syncs = <<>> /\ drops = {} /\ tables = {}
    /\ selectedSheet = <<>> /\ isSelecting = FALSE /\ firstRowIsHeader = TRUE
    /\ lastEvent = NoEvent /\ notified = 0 /\ events = 0 /\ last = NoCall

-----------------------------------------------------------------------------
(* Spec: the Selection Applier applied to workbooks and selection configs *)

Init ==
    /\ cell = NoCell
    /\ notation = <<>>
    /\ rawWorkbook = [fileName |-> FileName, sheets |-> <<ParsedSheet(SheetName, ScenarioMatrix)>>]
    /\ selection = NoDrag
    /\ selectionConfig = createDefaultSelectionConfig(rawWorkbook)
    /\ typed = NoRect
    /\ processedWorkbook = applySelection(rawWorkbook, selectionConfig)
    /\ NamingIdle
    /\ AppIdle
    /\ EngineIdle

\* handleWorkbookParsed: the default config and its Processed Workbook
Upload(parsed) ==
    /\ rawWorkbook' = parsed
    /\ selection' = NoDrag
    /\ selectionConfig' = createDefaultSelectionConfig(parsed)
    /\ typed' = NoRect
    /\ processedWorkbook' = applySelection(parsed, selectionConfig')
    /\ UNCHANGED <<cell, notation, namingVars, engineVars, appVars>>

\* the config change of the Range Selector, applied by handleSelectionConfigChange
Apply(config) ==
    /\ selectionConfig' = config
    /\ processedWorkbook' = applySelection(rawWorkbook, config)
    /\ UNCHANGED <<cell, notation, rawWorkbook, namingVars, engineVars, appVars>>

\* a completed drag from start to end: the commit effect of the Range Selector
CommitDrag(start, end) ==
    LET sel == [start |-> start, end |-> end]
        headerFlag == IF TheSelection.firstRowIsHeader = "false" THEN "false" ELSE "true"
    IN /\ selection' = sel
       /\ typed' = [known |-> TRUE,
                    r1 |-> Min(start.row, end.row), c1 |-> Min(start.col, end.col),
                    r2 |-> Max(start.row, end.row), c2 |-> Max(start.col, end.col)]
       /\ Apply([sheets |-> (TheSheet.name :> [present |-> TRUE,
                                               range |-> selectionToRange(sel),
                                               firstRowIsHeader |-> headerFlag])])

\* handleFirstRowHeaderChange
ToggleHeader(isHeader) ==
    /\ UNCHANGED <<selection, typed>>
    /\ Apply([sheets |-> (TheSheet.name :> [present |-> TRUE,
                                            range |-> TheSelection.range,
                                            firstRowIsHeader |-> IF isHeader THEN "true" ELSE "false"])])

\* applySelection called with the sheet's entry stripped of its firstRowIsHeader field
ApplyWithoutHeaderFlag ==
    /\ UNCHANGED <<selection, typed>>
    /\ Apply([sheets |-> (TheSheet.name :> [present |-> TRUE,
                                            range |-> TheSelection.range,
                                            firstRowIsHeader |-> "absent"])])

\* applySelection called with the range "<cell>:<cell>" written from two cells, in the order given
ApplyTypedRange(r1, c1, r2, c2) ==
    /\ selection' = NoDrag
    /\ typed' = [known |-> TRUE, r1 |-> r1, c1 |-> c1, r2 |-> r2, c2 |-> c2]
    /\ Apply([sheets |-> (TheSheet.name :> [present |-> TRUE,
                    range |-> cellToExcelNotation(r1, c1) \o <<58>> \o cellToExcelNotation(r2, c2),
                    firstRowIsHeader |-> TheSelection.firstRowIsHeader])])

\* applySelection called with a range text that was not written from cells
ApplyRangeText(text) ==
    /\ selection' = NoDrag
    /\ typed' = NoRect
    /\ Apply([sheets |-> (TheSheet.name :> [present |-> TRUE, range |-> text,
                                            firstRowIsHeader |-> TheSelection.firstRowIsHeader])])

\* applySelection called with a config that has no entry for the sheet
ApplyNoEntry ==
    /\ selection' = NoDrag
    /\ typed' = NoRect
    /\ Apply([sheets |-> <<>>])

\* The inputs are enumerated one corner at a time: a drag either starts at a new cell
\* (a click) or keeps the start of the previous one, and a written range replaces one
\* corner of the previous one.  Every pair of cells is reached in two steps.
Next ==
    \/ \E parsed \in SampleWorkbooks : Upload(parsed)
    \/ \E start \in GridCells, end \in GridCells :
          /\ start = end \/ start = selection.start
          /\ CommitDrag(start, end)
    \/ \E isHeader \in BOOLEAN : ToggleHeader(isHeader)
    \/ ApplyWithoutHeaderFlag
    \/ \E r \in 0..MaxCoord, c \in 0..MaxCoord : ApplyTypedRange(r, c, typed.r2, typed.c2)
    \/ \E r \in 0..MaxCoord, c \in 0..MaxCoord : ApplyTypedRange(typed.r1, typed.c1, r, c)
    \/ \E text \in SampleRangeTexts : ApplyRangeText(text)
    \/ ApplyNoEntry

Spec == Init /\ [][Next]_vars

-----------------------------------------------------------------------------
(* SpecNotation: cellToExcelNotation applied to the cells of the bounded space *)

InitNotation ==
    /\ cell \in {[row |-> r, col |-> c] : r \in 0..MaxRow, c \in 0..MaxCol}
    /\ notation = <<>>
    /\ rawWorkbook = [fileName |-> FileName, sheets |-> <<ParsedSheet(SheetName, <<>>)>>]
    /\ selection = NoDrag
    /\ selectionConfig = createDefaultSelectionConfig(rawWorkbook)
    /\ typed = NoRect
    /\ processedWorkbook = applySelection(rawWorkbook, selectionConfig)
    /\ NamingIdle
    /\ AppIdle
    /\ EngineIdle

Encode ==
    /\ notation = <<>>
    /\ notation' = cellToExcelNotation(cell.row, cell.col)
    /\ UNCHANGED <<cell, rawWorkbook, selection, selectionConfig, typed, processedWorkbook,
                   namingVars, engineVars, appVars>>

NextNotation == Encode

SpecNotation == InitNotation /\ [][NextNotation]_vars

-----------------------------------------------------------------------------
(* SpecConfig: applySelection applied to a workbook of two sheets under configs that  *)
(* hold, or lack, an entry for each of three sheet names                              *)

SheetName2 == <<83, 104, 101, 101, 116, 50>>                    \* "Sheet2"
OtherName == <<79, 116, 104, 101, 114>>                         \* "Other", no sheet of the workbooks

ConfigWorkbooks == {
    [fileName |-> FileName,
     sheets |-> <<ParsedSheet(SheetName, ScenarioMatrix),
                  ParsedSheet(SheetName2, << <<Str(TAge), Str(TName)>>, <<Num(7), Str(TBo)>> >>)>>],
    [fileName |-> FileName,
     sheets |-> <<ParsedSheet(SheetName, << <<Letter(1), Letter(1)>>, <<Num(1), Num(2)>> >>),
                  ParsedSheet(SheetName2, ScenarioMatrix)>>]
}

ConfigNames == {SheetName, SheetName2, OtherName}

ConfigEntries == {
    [present |-> TRUE, range |-> <<>>, firstRowIsHeader |-> "true"],
    [present |-> TRUE, range |-> <<>>, firstRowIsHeader |-> "false"],
    [present |-> TRUE, range |-> <<65, 50, 58, 66, 50>>, firstRowIsHeader |-> "false"],    \* "A2:B2"
    [present |-> TRUE, range |-> <<66, 49, 58, 66, 51>>, firstRowIsHeader |-> "absent"]    \* "B1:B3"
}

InitConfig ==
    /\ cell = NoCell
    /\ notation = <<>>
    /\ rawWorkbook \in ConfigWorkbooks
    /\ selection = NoDrag
    /\ selectionConfig = [sheets |-> <<>>]
    /\ typed = NoRect
    /\ processedWorkbook = applySelection(rawWorkbook, selectionConfig)
    /\ NamingIdle
    /\ AppIdle
    /\ EngineIdle

\* applySelection called with the entry of one sheet name added or replaced
SetEntry(name, entry) ==
    /\ selectionConfig' =
          [sheets |-> [n \in DOMAIN selectionConfig.sheets \cup {name} |->
                          IF n = name THEN entry ELSE selectionConfig.sheets[n]]]
    /\ processedWorkbook' = applySelection(rawWorkbook, selectionConfig')
    /\ UNCHANGED <<cell, notation, rawWorkbook, selection, typed, namingVars, engineVars, appVars>>

\* applySelection called with the entry of one sheet name removed
RemoveEntry(name) ==
    /\ name \in DOMAIN selectionConfig.sheets
    /\ selectionConfig' =
          [sheets |-> [n \in DOMAIN selectionConfig.sheets \ {name} |-> selectionConfig.sheets[n]]]
    /\ processedWorkbook' = applySelection(rawWorkbook, selectionConfig')
    /\ UNCHANGED <<cell, notation, rawWorkbook, selection, typed, namingVars, engineVars, appVars>>

NextConfig ==
    \/ \E name \in ConfigNames, entry \in ConfigEntries : SetEntry(name, entry)
    \/ \E name \in ConfigNames : RemoveEntry(name)

SpecConfig == InitConfig /\ [][NextConfig]_vars

-----------------------------------------------------------------------------
(* SpecNaming: normaliseTableName applied to file names, sheet names and indexes *)

MaxFileLen == 3
MaxSheetLen == 2

\* "B", "1", ".", "-" and the KELVIN SIGN
FileChars == {66, 49, 46, 45, 8490}
\* "B", "_", "-" and the KELVIN SIGN
SheetChars == {66, 95, 45, 8490}

TextsUpTo(chars, n) == UNION {[1..k -> chars] : k \in 0..n}

FileNames == TextsUpTo(FileChars, MaxFileLen) \cup {FileName}
SheetNames == TextsUpTo(SheetChars, MaxSheetLen) \cup {SheetName}
\* the first sheet, and the first whose 1-based position has two digits
SheetIndexes == {0, 9}

InitNaming ==
    /\ cell = NoCell
    /\ notation = <<>>
    /\ rawWorkbook = [fileName |-> FileName, sheets |-> <<ParsedSheet(SheetName, <<>>)>>]
    /\ selection = NoDrag
    /\ selectionConfig = createDefaultSelectionConfig(rawWorkbook)
    /\ typed = NoRect
    /\ processedWorkbook = applySelection(rawWorkbook, selectionConfig)
    /\ nameInput \in {[fileName |-> f, sheetName |-> <<>>, index |-> 0] : f \in FileNames}
    /\ tableName = <<>>
    /\ AppIdle
    /\ EngineIdle

Normalise(sheetName, index) ==
    /\ tableName = <<>>
    /\ nameInput' = [nameInput EXCEPT !.sheetName = sheetName, !.index = index]
    /\ tableName' = normaliseTableName(nameInput.fileName, sheetName, index)
    /\ UNCHANGED <<cell, notation, rawWorkbook, selection, selectionConfig, typed,
                   processedWorkbook, appVars, engineVars>>

NextNaming == \E sheetName \in SheetNames, index \in SheetIndexes : Normalise(sheetName, index)

SpecNaming == InitNaming /\ [][NextNaming]_vars

-----------------------------------------------------------------------------
(* SpecApp: App.tsx with the uploader, the Range Selector and the engine.  A handler   *)
(* runs without interruption up to an await of an engine call; every engine call is a  *)
(* request that the engine answers at some later step, and the drops that              *)
(* syncTablesWithProcessed issues without awaiting them are executed by the engine at  *)
(* any later step.  db.registerFileText changes no state of the model and is folded    *)
(* into the DROP TABLE IF EXISTS that follows it.  An event is handled once the        *)
(* effects of the previous render have run.                                            *)

\* handler calls suspended in syncTablesWithProcessed at one time
MaxSyncs == 2
\* files parseExcel is reading at one time
MaxParsing == 1
\* onConfigChange calls counted after one event
MaxNotified == 2
\* user events (file drops, pointer events, Select changes) in one run
MaxEvents == 5

NoWorkbook == [fileName |-> <<>>, sheets |-> <<>>]      \* rawWorkbook = null

\* the workbook the user uploads: two sheets of one column, a header and one data row
AppWorkbooks == {
    [fileName |-> FileName,
     sheets |-> <<ParsedSheet(SheetName, << <<Str(TName)>>, <<Str(TAnn)>> >>),
                  ParsedSheet(SheetName2, << <<Str(TAge)>>, <<Num(30)>> >>)>>]
}

EngineMessage == <<102, 97, 105, 108, 101, 100>>        \* "failed", the message of an engine error

Values(map) == {map[n] : n \in DOMAIN map}
Put(map, key, value) == [n \in DOMAIN map \cup {key} |-> IF n = key THEN value ELSE map[n]]
RemoveAt(seq, k) == SubSeq(seq, 1, k - 1) \o SubSeq(seq, k + 1, Len(seq))
FlagText(flag) == IF flag THEN "true" ELSE "false"

IsEmptySheetNoColumns(sheet) == Len(sheet.columns) = 0

\* sheet.rows.length === 0 || sheet.columns.length === 0
IsEmptySheet(sheet) == Len(sheet.rows) = 0 \/ Len(sheet.columns) = 0

\* the position of the first sheet from position from on that the loop registers, 0 if none
NextToRegister(processed, from) ==
    LET rest == {i \in DOMAIN processed.sheets : i >= from /\ ~IsEmptySheet(processed.sheets[i])}
    IN IF rest = {} THEN 0 ELSE CHOOSE i \in rest : \A j \in rest : i <= j

\* registerCsvAsTable: !csv || csv.trim().length === 0
RejectsCsv(csv) == Len(Trim(csv)) = 0

\* processed.sheets.find(sheet with rows and columns) ?? processed.sheets[0], null if none
FirstSheetWithData(processed) ==
    LET first == NextToRegister(processed, 1)
    IN IF first # 0 THEN processed.sheets[first].name
       ELSE IF processed.sheets # <<>> THEN processed.sheets[1].name ELSE <<>>

\* handleSelectionConfigChange: the sheet shown after the change, closure being the
\* selectedSheetName of the render that created the handler
SheetNameAfterChange(processed, closure) ==
    LET found == {i \in DOMAIN processed.sheets : processed.sheets[i].name = closure}
    IN IF closure # <<>>
       THEN IF found = {} \/ \A i \in found : IsEmptySheet(processed.sheets[i])
            THEN FirstSheetWithData(processed)
            ELSE selectedSheetName
       ELSE IF processed.sheets # <<>> THEN FirstSheetWithData(processed) ELSE selectedSheetName

MapAfterFailurePartial(previous, newMap) == newMap

\* a registration that throws leaves the loop before setTableMap(newMap)
MapAfterFailure(previous, newMap) == previous

\* selectedSheetName ? tableMap[selectedSheetName] ?? null : null  (<<>> = null)
selectedTableName ==
    IF selectedSheetName # <<>> /\ selectedSheetName \in DOMAIN tableMap
    THEN tableMap[selectedSheetName] ELSE <<>>

\* Object.values(tableMap): the tables offered to the query panel and the chat
availableTables == Values(tableMap)

\* the in-flight calls, each noting that a call of this kind ran beside it
Marked(calls, kind) == [j \in DOMAIN calls |-> [calls[j] EXCEPT !.peers = @ \cup {kind}]]

FinallyOnSuccess(ok) == IF ok THEN FALSE ELSE isProcessing

\* finally { setIsProcessing(false) } of both handlers, on either path
Finally(ok) == FALSE

\* the rest of a handler once syncTablesWithProcessed has returned newMap (ok) or has
\* thrown: error and config are duckError and selectionConfig as the handler finds them
Finish(call, ok, newMap, others, error, config) ==
    /\ syncs' = others
    /\ isProcessing' = Finally(ok)
    /\ last' = [kind |-> call.kind, ok |-> ok, peers |-> call.peers]
    /\ IF ok
       THEN /\ tableMap' = newMap
            /\ processedWorkbook' = call.processed
            /\ duckError' = error
            /\ rawWorkbook' = IF call.kind = "upload" THEN call.workbook ELSE rawWorkbook
            /\ selectionConfig' = IF call.kind = "upload" THEN call.config ELSE config
            /\ selectedSheetName' =
                  IF call.kind = "upload" THEN FirstSheetWithData(call.processed)
                  ELSE SheetNameAfterChange(call.processed, call.closure)
       ELSE /\ tableMap' = MapAfterFailure(tableMap, newMap)
            /\ duckError' = Str(EngineMessage)
            /\ selectionConfig' = config
            /\ UNCHANGED <<processedWorkbook, rawWorkbook, selectedSheetName>>

\* a handler call with its locals: processed = applySelection(workbook, config), the
\* position of the sheet the loop is at (0: none to register), the step of
\* registerCsvAsTable it waits for and the newMap built so far
CallOf(kind, workbook, config, processed) ==
    [kind |-> kind, workbook |-> workbook, config |-> config, processed |-> processed,
     closure |-> selectedSheetName, index |-> NextToRegister(processed, 1), phase |-> "drop", newMap |-> <<>>,
     peers |-> {syncs[j].kind : j \in DOMAIN syncs}]

\* handleWorkbookParsed (kind "upload") and handleSelectionConfigChange (kind "config") up
\* to the first await of an engine call, or to their end when no sheet is registered
Handle(kind, workbook, config) ==
    LET call == CallOf(kind, workbook, config, applySelection(workbook, config))
        others == Marked(syncs, kind)
        stored == IF kind = "config" THEN config ELSE selectionConfig
    IN /\ drops' = drops \cup Values(tableMap)
       /\ IF call.index = 0 THEN Finish(call, TRUE, <<>>, others, Null, stored)
          ELSE IF RejectsCsv(call.processed.sheets[call.index].csv)
               THEN Finish(call, FALSE, <<>>, others, Null, stored)
          ELSE /\ syncs' = Append(others, call)
               /\ isProcessing' = TRUE
               /\ duckError' = Null
               /\ selectionConfig' = stored
               /\ UNCHANGED <<tableMap, processedWorkbook, rawWorkbook, selectedSheetName, last>>

\* useState(() => workbook.sheets[0]?.name ?? "") when the Range Selector is first rendered
MountedSheet(before, after) ==
    IF before = NoWorkbook /\ after # NoWorkbook /\ after.sheets # <<>>
    THEN after.sheets[1].name
    ELSE selectedSheet

\* the Range Selector's render: the sheet, the stored entry and the cells it shows
CurrentSheet ==
    LET found == {i \in DOMAIN rawWorkbook.sheets : rawWorkbook.sheets[i].name = selectedSheet}
    IN IF found # {} THEN rawWorkbook.sheets[CHOOSE i \in found : TRUE] ELSE rawWorkbook.sheets[1]
StoredEntry == SelectionOf(selectionConfig, selectedSheet)
StoredRange == IF StoredEntry.present THEN StoredEntry.range ELSE <<>>
StoredFlag == StoredEntry.firstRowIsHeader # "false"
PreviewCells ==
    IF rawWorkbook = NoWorkbook \/ rawWorkbook.sheets = <<>> THEN {}
    ELSE {[row |-> r, col |-> c] : r \in 0..(Min(Len(CurrentSheet.matrix), 20) - 1),
                                   c \in 0..(WidthOf(CurrentSheet.matrix, 0) - 1)}

\* the three effects of the Range Selector on the values of one render
SheetAfterEffects ==
    IF \E i \in DOMAIN rawWorkbook.sheets : rawWorkbook.sheets[i].name = selectedSheet
    THEN selectedSheet
    ELSE IF rawWorkbook.sheets # <<>> THEN rawWorkbook.sheets[1].name ELSE <<>>
CommitsWhileDragging ==
    /\ selection.start # NoCell /\ selection.end # NoCell
    /\ selectionToRange(selection) # StoredRange \/ firstRowIsHeader # StoredFlag
Commits ==
    /\ selection.start # NoCell /\ selection.end # NoCell /\ ~isSelecting
    /\ selectionToRange(selection) # StoredRange \/ firstRowIsHeader # StoredFlag
EffectsDue ==
    /\ rawWorkbook # NoWorkbook
    /\ SheetAfterEffects # selectedSheet \/ StoredFlag # firstRowIsHeader \/ Commits
EffectsRunnable ==
    EffectsDue /\ (Commits => Len(syncs) < MaxSyncs /\ notified < MaxNotified)

Other == [kind |-> "other", stored |-> <<>>]

InitApp ==
    /\ cell = NoCell
    /\ notation = <<>>
    /\ rawWorkbook = NoWorkbook
    /\ selection = NoDrag
    /\ selectionConfig = [sheets |-> <<>>]
    /\ typed = NoRect
    /\ processedWorkbook = NoWorkbook
    /\ NamingIdle
    /\ AppIdle
    /\ EngineIdle

Uploaded == [kind |-> "uploaded", stored |-> <<>>]

\* the history after a handler call has ended: a successful upload starts a new period,
\* which lasts while the application works on its own; any other end closes the count
EndOfCall ==
    IF last'.kind = "upload" /\ last'.ok
    THEN lastEvent' = Uploaded /\ notified' = 0
    ELSE IF lastEvent = Uploaded
         THEN UNCHANGED <<lastEvent, notified>>
         ELSE lastEvent' = Other /\ notified' = 0

\* the effect of App: getDuckDB() resolves
DuckInitialised ==
    /\ ~duckReady /\ duckError = Null
    /\ duckReady' = TRUE
    /\ UNCHANGED <<selectedSheetName, events, cell, notation, rawWorkbook, selection, selectionConfig, typed,
                   processedWorkbook, namingVars, engineVars, duckError, isProcessing, tableMap, parsing, syncs, drops, tables, selectedSheet, isSelecting,
                   firstRowIsHeader, lastEvent, notified, last>>

\* the effect of App: getDuckDB() rejects
DuckFailsToStart ==
    /\ ~duckReady /\ duckError = Null
    /\ duckError' = Str(EngineMessage)
    /\ UNCHANGED <<selectedSheetName, events, cell, notation, rawWorkbook, selection, selectionConfig, typed,
                   processedWorkbook, namingVars, engineVars, duckReady, isProcessing, tableMap, parsing, syncs, drops, tables, selectedSheet, isSelecting,
                   firstRowIsHeader, lastEvent, notified, last>>

\* ExcelUploader onDrop / handleFiles up to await parseExcel(file)
DropFile(workbook) ==
    /\ ~EffectsDue
    /\ events < MaxEvents
    /\ events' = events + 1
    /\ duckReady /\ ~isProcessing
    /\ Len(parsing) < MaxParsing
    /\ parsing' = Append(parsing, workbook)
    /\ lastEvent' = Other
    /\ notified' = 0
    /\ UNCHANGED <<selectedSheetName, cell, notation, rawWorkbook, selection, selectionConfig, typed,
                   processedWorkbook, namingVars, engineVars, duckReady, duckError, isProcessing,
                   tableMap, syncs, drops, tables, selectedSheet,
                   isSelecting, firstRowIsHeader, last>>

\* parseExcel resolves: onParsed = handleWorkbookParsed
ParseDone(k) ==
    /\ ~EffectsRunnable
    /\ Len(syncs) < MaxSyncs
    /\ parsing' = RemoveAt(parsing, k)
    /\ Handle("upload", parsing[k], createDefaultSelectionConfig(parsing[k]))
    /\ selectedSheet' = MountedSheet(rawWorkbook, rawWorkbook')
    /\ IF Len(syncs') = Len(syncs) THEN EndOfCall ELSE lastEvent' = Other /\ notified' = 0
    /\ UNCHANGED <<events, cell, notation, selection, typed, namingVars, engineVars, duckReady, tables,
                   isSelecting, firstRowIsHeader>>

\* the sheet the loop of a suspended call is registering, and its table name
SheetOf(call) == call.processed.sheets[call.index]
TableOf(call) == normaliseTableName(call.workbook.fileName, SheetOf(call).name, call.index - 1)

\* registerCsvAsTable: the engine answers DROP TABLE IF EXISTS
EngineDropsIfExists(k) ==
    /\ ~EffectsRunnable
    /\ syncs[k].phase = "drop"
    /\ tables' = tables \ {TableOf(syncs[k])}
    /\ syncs' = [syncs EXCEPT ![k].phase = "create"]
    /\ UNCHANGED <<selectedSheetName, events, cell, notation, rawWorkbook, selection, selectionConfig, typed,
                   processedWorkbook, namingVars, engineVars, duckReady, duckError, isProcessing,
                   tableMap, parsing, drops, selectedSheet, isSelecting,
                   firstRowIsHeader, lastEvent, notified, last>>

\* registerCsvAsTable: the engine answers CREATE TABLE; the loop goes on to the next
\* sheet with rows and columns, or the handler runs to its end
EngineCreates(k) ==
    LET call == syncs[k]
        newMap == Put(call.newMap, SheetOf(call).name, TableOf(call))
        next == NextToRegister(call.processed, call.index + 1)
    IN /\ ~EffectsRunnable
       /\ call.phase = "create"
       /\ tables' = tables \cup {TableOf(call)}
       /\ IF next = 0 \/ RejectsCsv(call.processed.sheets[next].csv)
          THEN /\ Finish(call, next = 0, newMap, RemoveAt(syncs, k), duckError, selectionConfig)
               /\ EndOfCall
          ELSE /\ syncs' = [syncs EXCEPT ![k] = [call EXCEPT !.index = next, !.phase = "drop",
                                                              !.newMap = newMap]]
               /\ UNCHANGED <<rawWorkbook, selectionConfig, processedWorkbook, duckError, selectedSheetName,
                              isProcessing, tableMap, lastEvent, notified,
                              last>>
       /\ selectedSheet' = MountedSheet(rawWorkbook, rawWorkbook')
       /\ UNCHANGED <<events, cell, notation, selection, typed, namingVars, engineVars, duckReady, parsing, drops,
                      isSelecting, firstRowIsHeader>>

\* registerCsvAsTable: an engine call rejects; the error leaves the loop and the handler
\* runs its catch and finally
EngineRejects(k) ==
    /\ ~EffectsRunnable
    /\ Finish(syncs[k], FALSE, syncs[k].newMap, RemoveAt(syncs, k), duckError, selectionConfig)
    /\ EndOfCall
    /\ UNCHANGED <<events, cell, notation, selection, typed, namingVars, engineVars, duckReady, parsing, drops,
                   tables, selectedSheet, isSelecting, firstRowIsHeader>>

\* dropTable: the engine answers the DROP TABLE IF EXISTS of an un-awaited drop
EngineDrops(name) ==
    /\ ~EffectsRunnable
    /\ name \in drops
    /\ drops' = drops \ {name}
    /\ tables' = tables \ {name}
    /\ UNCHANGED <<selectedSheetName, events, cell, notation, rawWorkbook, selection, selectionConfig, typed,
                   processedWorkbook, namingVars, engineVars, duckReady, duckError, isProcessing,
                   tableMap, parsing, syncs, selectedSheet, isSelecting,
                   firstRowIsHeader, lastEvent, notified, last>>

\* handleMouseDown on a cell of the preview
MouseDown(position) ==
    /\ ~EffectsDue
    /\ events < MaxEvents
    /\ events' = events + 1
    /\ ~isProcessing
    /\ isSelecting' = TRUE
    /\ selection' = [start |-> position, end |-> position]
    /\ lastEvent' = [kind |-> "drag", stored |-> <<>>]
    /\ notified' = 0
    /\ UNCHANGED <<selectedSheetName, cell, notation, rawWorkbook, selectionConfig, typed, processedWorkbook,
                   namingVars, engineVars, duckReady, duckError, isProcessing, tableMap, parsing, syncs, drops, tables, selectedSheet, firstRowIsHeader,
                   last>>

DraggedFrom(position) == [selection EXCEPT !.start = position]

\* setSelection(prev => ({ ...prev, end: { row, col } }))
DraggedTo(position) == [selection EXCEPT !.end = position]

\* handleMouseEnter on a cell of the preview
MouseEnter(position) ==
    /\ ~EffectsDue
    /\ events < MaxEvents
    /\ events' = events + 1
    /\ isSelecting /\ selection.start # NoCell
    /\ selection' = DraggedTo(position)
    /\ lastEvent' = [kind |-> "drag", stored |-> <<>>]
    /\ notified' = 0
    /\ UNCHANGED <<selectedSheetName, cell, notation, rawWorkbook, selectionConfig, typed, processedWorkbook,
                   namingVars, engineVars, duckReady, duckError, isProcessing, tableMap, parsing, syncs, drops, tables, selectedSheet, isSelecting,
                   firstRowIsHeader, last>>

\* handleMouseUp / handleGlobalMouseUp at the end of a drag
MouseUp ==
    /\ ~EffectsDue
    /\ events < MaxEvents
    /\ events' = events + 1
    /\ rawWorkbook # NoWorkbook
    /\ isSelecting
    /\ isSelecting' = FALSE
    /\ lastEvent' = [kind |-> "mouseup", stored |-> StoredRange]
    /\ notified' = 0
    /\ UNCHANGED <<selectedSheetName, cell, notation, rawWorkbook, selection, selectionConfig, typed,
                   processedWorkbook, namingVars, engineVars, duckReady, duckError, isProcessing,
                   tableMap, parsing, syncs, drops, tables, selectedSheet,
                   firstRowIsHeader, last>>

\* the entry of the Range Selector's sheet replaced in the config
WithEntry(range, flag) ==
    [sheets |-> Put(selectionConfig.sheets, selectedSheet,
                    [present |-> TRUE, range |-> range, firstRowIsHeader |-> FlagText(flag)])]

\* handleFirstRowHeaderChange: the header Select gives a value other than the one shown
FirstRowHeaderChange(isHeader) ==
    /\ ~EffectsDue
    /\ events < MaxEvents
    /\ events' = events + 1
    /\ rawWorkbook # NoWorkbook
    /\ ~isProcessing
    /\ isHeader # firstRowIsHeader
    /\ Len(syncs) < MaxSyncs
    /\ firstRowIsHeader' = isHeader
    /\ Handle("config", rawWorkbook, WithEntry(StoredRange, isHeader))
    /\ lastEvent' = [kind |-> "toggle", stored |-> <<>>]
    /\ notified' = 1
    /\ UNCHANGED <<cell, notation, selection, typed, namingVars, engineVars, duckReady, parsing, tables,
                   selectedSheet, isSelecting>>

\* the sheet Select of the Range Selector: setSelectedSheet
SetSelectedSheet(name) ==
    /\ ~EffectsDue
    /\ events < MaxEvents
    /\ events' = events + 1
    /\ ~isProcessing
    /\ name # selectedSheet
    /\ selectedSheet' = name
    /\ lastEvent' = [kind |-> "sheet", stored |-> <<>>]
    /\ notified' = 0
    /\ UNCHANGED <<selectedSheetName, cell, notation, rawWorkbook, selection, selectionConfig, typed,
                   processedWorkbook, namingVars, engineVars, duckReady, duckError, isProcessing,
                   tableMap, parsing, syncs, drops, tables, isSelecting,
                   firstRowIsHeader, last>>

\* the sheet Select of App gives a sheet other than the one it shows: setSelectedSheetName
SetSelectedSheetName(name) ==
    /\ ~EffectsDue
    /\ events < MaxEvents
    /\ events' = events + 1
    /\ name # (IF selectedSheetName # <<>> THEN selectedSheetName
                ELSE processedWorkbook.sheets[1].name)
    /\ selectedSheetName' = name
    /\ lastEvent' = Other
    /\ notified' = 0
    /\ UNCHANGED <<cell, notation, rawWorkbook, selection, selectionConfig, typed,
                   processedWorkbook, namingVars, engineVars, duckReady, duckError, isProcessing,
                   tableMap, parsing, syncs, drops, tables, selectedSheet, isSelecting,
                   firstRowIsHeader, last>>

\* the effects of the Range Selector after a render: the sheet is reset when the workbook
\* has none of its name, firstRowIsHeader is set from the stored entry, and a complete
\* selection that is not being dragged is committed when it differs from the stored entry
RunEffects ==
    /\ EffectsRunnable
    /\ selectedSheet' = SheetAfterEffects
    /\ firstRowIsHeader' = StoredFlag
    /\ IF Commits
       THEN /\ Handle("config", rawWorkbook,
                      WithEntry(selectionToRange(selection), firstRowIsHeader))
            /\ notified' = notified + 1
       ELSE /\ notified' = notified
            /\ UNCHANGED <<rawWorkbook, selectionConfig, processedWorkbook, duckError, selectedSheetName,
                           isProcessing, tableMap, syncs, drops, last>>
    /\ UNCHANGED <<events, cell, notation, selection, typed, namingVars, engineVars, duckReady, parsing, tables,
                   isSelecting, lastEvent>>

NextApp ==
    \/ DuckInitialised
    \/ DuckFailsToStart
    \/ \E workbook \in AppWorkbooks : DropFile(workbook)
    \/ \E k \in DOMAIN parsing : ParseDone(k)
    \/ \E k \in DOMAIN syncs : EngineDropsIfExists(k)
    \/ \E k \in DOMAIN syncs : EngineCreates(k)
    \/ \E k \in DOMAIN syncs : EngineRejects(k)
    \/ \E name \in drops : EngineDrops(name)
    \/ \E position \in PreviewCells : MouseDown(position)
    \/ \E position \in PreviewCells : MouseEnter(position)
    \/ MouseUp
    \/ \E isHeader \in BOOLEAN : FirstRowHeaderChange(isHeader)
    \/ \E i \in DOMAIN rawWorkbook.sheets : SetSelectedSheet(rawWorkbook.sheets[i].name)
    \/ \E i \in DOMAIN processedWorkbook.sheets : SetSelectedSheetName(processedWorkbook.sheets[i].name)
    \/ RunEffects

SpecApp == InitApp /\ [][NextApp]_vars

\* the engine answers the call a suspended handler waits for: it returns or it fails
Answers(k) ==
    k \in DOMAIN syncs /\ (EngineDropsIfExists(k) \/ EngineCreates(k) \/ EngineRejects(k))

\* the call at position k can be answered: no effect is waiting to run before it
AnswerDue(k) == k \in DOMAIN syncs /\ ~EffectsRunnable

\* SpecApp where every engine call eventually returns or fails and React runs the effects
\* of a render. The weak fairness of Answers(k) and of RunEffects is written out, with
\* ENABLED <<Answers(k)>>_vars = AnswerDue(k) and ENABLED <<RunEffects>>_vars =
\* EffectsRunnable.
SpecAppFair ==
    /\ SpecApp
    /\ WF_vars(\E name \in drops : EngineDrops(name))
    /\ \A k \in 1..MaxSyncs : []<>(~AnswerDue(k)) \/ []<><<Answers(k)>>_vars
    /\ []<>(~EffectsRunnable) \/ []<><<RunEffects>>_vars

-----------------------------------------------------------------------------
(* SpecEngine: the engine and connection singletons under concurrent first use *)

\* callers of the engine functions in one run
MaxCallers == 3

EngineFunctions == {"getDuckDB", "getDuckDBConnection", "registerCsvAsTable", "runQuery", "dropTable"}
\* registerCsvAsTable awaits getDuckDB() first; runQuery and dropTable start with
\* getDuckDBConnection()
StartsWithGetDuckDB == {"getDuckDB", "registerCsvAsTable"}

NeedsInstanceUntilReady == dbInstancePromise # "resolved"

\* !dbInstancePromise
NeedsInstance == dbInstancePromise = "null"

\* !connectionPromise
NeedsConnection == connectionPromise = "null"

\* getDuckDB(): dbInstancePromise = instantiateDuckDB() when it is unset
GetDuckDB ==
    /\ dbInstancePromise' = IF NeedsInstance THEN "pending" ELSE dbInstancePromise
    /\ instantiations' = IF NeedsInstance THEN instantiations + 1 ELSE instantiations

\* getDuckDBConnection(): when connectionPromise is unset it becomes the promise of an
\* async body that runs at once up to its await getDuckDB()
GetDuckDBConnection ==
    IF NeedsConnection
    THEN /\ connectionPromise' = "pending"
         /\ opening' = "db"
         /\ GetDuckDB
    ELSE UNCHANGED <<connectionPromise, opening, dbInstancePromise, instantiations>>

InitEngine ==
    /\ cell = NoCell
    /\ notation = <<>>
    /\ rawWorkbook = NoWorkbook
    /\ selection = NoDrag
    /\ selectionConfig = [sheets |-> <<>>]
    /\ typed = NoRect
    /\ processedWorkbook = NoWorkbook
    /\ NamingIdle
    /\ AppIdle
    /\ EngineIdle

\* a caller calls one of the exported functions, which runs to its first await
Call(fn) ==
    /\ Len(callers) < MaxCallers
    /\ IF fn \in StartsWithGetDuckDB
       THEN /\ GetDuckDB
            /\ callers' = Append(callers, [fn |-> fn, at |-> "db"])
            /\ UNCHANGED <<connectionPromise, opening>>
       ELSE /\ GetDuckDBConnection
            /\ callers' = Append(callers, [fn |-> fn, at |-> "connection"])
    /\ UNCHANGED <<cell, notation, rawWorkbook, selection, selectionConfig, typed,
                   processedWorkbook, namingVars, appVars, connections>>

\* instantiateDuckDB returns the db
InstantiateResolves ==
    /\ dbInstancePromise = "pending"
    /\ dbInstancePromise' = "resolved"
    /\ UNCHANGED <<cell, notation, rawWorkbook, selection, selectionConfig, typed,
                   processedWorkbook, namingVars, appVars, connectionPromise, opening,
                   instantiations, connections, callers>>

\* instantiateDuckDB throws
InstantiateRejects ==
    /\ dbInstancePromise = "pending"
    /\ dbInstancePromise' = "rejected"
    /\ UNCHANGED <<cell, notation, rawWorkbook, selection, selectionConfig, typed,
                   processedWorkbook, namingVars, appVars, connectionPromise, opening,
                   instantiations, connections, callers>>

\* the async body of getDuckDBConnection resumes with the db and calls db.connect()
OpeningConnects ==
    /\ opening = "db" /\ dbInstancePromise = "resolved"
    /\ opening' = "connect"
    /\ connections' = connections + 1
    /\ UNCHANGED <<cell, notation, rawWorkbook, selection, selectionConfig, typed,
                   processedWorkbook, namingVars, appVars, dbInstancePromise,
                   connectionPromise, instantiations, callers>>

\* the async body of getDuckDBConnection resumes with the error of getDuckDB()
OpeningThrows ==
    /\ opening = "db" /\ dbInstancePromise = "rejected"
    /\ opening' = "done"
    /\ connectionPromise' = "rejected"
    /\ UNCHANGED <<cell, notation, rawWorkbook, selection, selectionConfig, typed,
                   processedWorkbook, namingVars, appVars, dbInstancePromise,
                   instantiations, connections, callers>>

\* db.connect() returns the connection (ok) or throws
ConnectSettles(ok) ==
    /\ opening = "connect"
    /\ opening' = "done"
    /\ connectionPromise' = IF ok THEN "resolved" ELSE "rejected"
    /\ UNCHANGED <<cell, notation, rawWorkbook, selection, selectionConfig, typed,
                   processedWorkbook, namingVars, appVars, dbInstancePromise,
                   instantiations, connections, callers>>

\* a caller resumes after await getDuckDB(): registerCsvAsTable goes on to
\* getDuckDBConnection()
ResumesWithDb(k) ==
    /\ callers[k].at = "db"
    /\ dbInstancePromise \in {"resolved", "rejected"}
    /\ IF dbInstancePromise = "rejected"
       THEN /\ callers' = [callers EXCEPT ![k].at = "thrown"]
            /\ UNCHANGED <<connectionPromise, opening, dbInstancePromise, instantiations>>
       ELSE IF callers[k].fn = "registerCsvAsTable"
            THEN /\ callers' = [callers EXCEPT ![k].at = "connection"]
                 /\ GetDuckDBConnection
            ELSE /\ callers' = [callers EXCEPT ![k].at = "returned"]
                 /\ UNCHANGED <<connectionPromise, opening, dbInstancePromise, instantiations>>
    /\ UNCHANGED <<cell, notation, rawWorkbook, selection, selectionConfig, typed,
                   processedWorkbook, namingVars, appVars, connections>>

\* a caller resumes after await getDuckDBConnection()
ResumesWithConnection(k) ==
    /\ callers[k].at = "connection"
    /\ connectionPromise \in {"resolved", "rejected"}
    /\ callers' = [callers EXCEPT ![k].at = IF connectionPromise = "resolved" THEN "returned"
                                            ELSE "thrown"]
    /\ UNCHANGED <<cell, notation, rawWorkbook, selection, selectionConfig, typed,
                   processedWorkbook, namingVars, appVars, dbInstancePromise,
                   connectionPromise, opening, instantiations, connections>>

NextEngine ==
    \/ \E fn \in EngineFunctions : Call(fn)
    \/ InstantiateResolves
    \/ InstantiateRejects
    \/ OpeningConnects
    \/ OpeningThrows
    \/ \E ok \in BOOLEAN : ConnectSettles(ok)
    \/ \E k \in DOMAIN callers : ResumesWithDb(k)
    \/ \E k \in DOMAIN callers : ResumesWithConnection(k)

SpecEngine == InitEngine /\ [][NextEngine]_vars

-----------------------------------------------------------------------------
(* Properties of cellToExcelNotation (SpecNotation) *)

IsLetter(ch) == ch >= 65 /\ ch <= 90
IsDigit(ch) == ch >= 48 /\ ch <= 57

\* the number of capital letters a text starts with
RECURSIVE LetterPrefixLen(_)
LetterPrefixLen(text) ==
    IF text # <<>> /\ IsLetter(Head(text)) THEN 1 + LetterPrefixLen(Tail(text)) ELSE 0

LettersOf(text) == SubSeq(text, 1, LetterPrefixLen(text))
DigitsOf(text) == SubSeq(text, LetterPrefixLen(text) + 1, Len(text))

\* the number a word over A..Z denotes in bijective base 26 (A = 1, Z = 26, AA = 27)
RECURSIVE BijectiveValue(_)
BijectiveValue(word) ==
    IF word = <<>> THEN 0
    ELSE 26 * BijectiveValue(SubSeq(word, 1, Len(word) - 1)) + (word[Len(word)] - 64)

\* the number a decimal numeral denotes
RECURSIVE DecimalValue(_)
DecimalValue(digits) ==
    IF digits = <<>> THEN 0
    ELSE 10 * DecimalValue(SubSeq(digits, 1, Len(digits) - 1)) + (digits[Len(digits)] - 48)

NotationTable == [r \in 0..MaxRow |-> [c \in 0..MaxCol |-> cellToExcelNotation(r, c)]]

\* C2: cellToExcelNotation(row, col) is the bijective base-26 letters of col (0 -> A,
\* 25 -> Z, 26 -> AA, 27 -> AB, 701 -> ZZ, 702 -> AAA) followed by the decimal numeral
\* of row + 1, and no other cell of the bounded coordinate space has the same notation.
C2_NotationBijective ==
    notation # <<>> =>
        LET letters == LettersOf(notation)
            digits == DigitsOf(notation)
        IN /\ letters # <<>>
           /\ digits # <<>>
           /\ \A i \in DOMAIN digits : IsDigit(digits[i])
           /\ digits[1] # 48
           /\ BijectiveValue(letters) = cell.col + 1
           /\ DecimalValue(digits) = cell.row + 1
           /\ cell.col = 0 => letters = <<65>>
           /\ cell.col = 25 => letters = <<90>>
           /\ cell.col = 26 => letters = <<65, 65>>
           /\ cell.col = 27 => letters = <<65, 66>>
           /\ cell.col = 701 => letters = <<90, 90>>
           /\ cell.col = 702 => letters = <<65, 65, 65>>
           /\ \A r \in 0..MaxRow, c \in 0..MaxCol :
                 NotationTable[r][c] = notation => (r = cell.row /\ c = cell.col)

\* the notation of row 9, column 702 has been computed (AAA10)
C2_Witness == notation = <<65, 65, 65, 49, 48>> /\ cell = [row |-> 9, col |-> 702]

-----------------------------------------------------------------------------
(* Properties of the Selection Applier (Spec) *)

\* the cell of the matrix at a 0-based position, null where the matrix holds none
CellOrNull(matrix, r, c) ==
    IF r + 1 \in DOMAIN matrix /\ c + 1 \in DOMAIN matrix[r + 1] /\ matrix[r + 1][c + 1].t # "undefined"
    THEN matrix[r + 1][c + 1]
    ELSE Null

\* rows r1..r2 and columns c1..c2 of the matrix (0-based, inclusive)
Rectangle(matrix, r1, r2, c1, c2) ==
    [i \in 1..(r2 - r1 + 1) |-> [j \in 1..(c2 - c1 + 1) |-> CellOrNull(matrix, r1 + i - 1, c1 + j - 1)]]

\* the sub-matrix the stored config selects
TheTarget == extractRangeMatrix(TheSheet.matrix, Trim(TheSelection.range))
HeaderIncluded == TheSelection.firstRowIsHeader # "false"

\* C1: for a drag between two cells of the matrix, in any corner order, the range string
\* selectionToRange gives decodes in extractRangeMatrix to exactly the rows
\* min(r1,r2)..max(r1,r2) and the columns min(c1,c2)..max(c1,c2), and the reverse drag
\* gives the same range string.
C1_RangeRoundTrip ==
    selection # NoDrag =>
        /\ TheTarget = Rectangle(TheSheet.matrix,
                                 Min(selection.start.row, selection.end.row),
                                 Max(selection.start.row, selection.end.row),
                                 Min(selection.start.col, selection.end.col),
                                 Max(selection.start.col, selection.end.col))
        /\ selectionToRange([start |-> selection.end, end |-> selection.start]) = TheSelection.range

\* a drag from the bottom-right cell B3 up to A1 has been committed as "A1:B3"
C1_Witness ==
    /\ selection = [start |-> [row |-> 2, col |-> 1], end |-> [row |-> 0, col |-> 0]]
    /\ TheSelection.range = <<65, 49, 58, 66, 51>>
    /\ Len(TheTarget) = 3

\* C3: every record of rows has exactly one entry for each entry of columns: the number
\* of its keys is columns.length and every column is a key.
C3_OneEntryPerColumn ==
    \A i \in DOMAIN TheProcessed.rows :
        /\ Cardinality(DOMAIN TheProcessed.rows[i]) = Len(TheProcessed.columns)
        /\ \A j \in DOMAIN TheProcessed.columns : TheProcessed.columns[j] \in DOMAIN TheProcessed.rows[i]

\* C4: the columns of a Processed Sheet never contain the same name twice.
C4_NoDuplicateColumns ==
    \A i, j \in DOMAIN TheProcessed.columns :
        TheProcessed.columns[i] = TheProcessed.columns[j] => i = j

\* a text without its leading and trailing white space (<<>> when it is all white space)
Stripped(text) ==
    LET solid == {i \in DOMAIN text : ~IsSpace(text[i])}
    IN IF solid = {} THEN <<>>
       ELSE SubSeq(text, CHOOSE i \in solid : \A j \in solid : i <= j,
                         CHOOSE i \in solid : \A j \in solid : j <= i)

\* name is "Column_" followed by the decimal numeral of k
IsColumnLabel(name, k) ==
    /\ Len(name) > 7
    /\ SubSeq(name, 1, 7) = <<67, 111, 108, 117, 109, 110, 95>>
    /\ \A i \in 8..Len(name) : IsDigit(name[i])
    /\ name[8] # 48
    /\ DecimalValue(SubSeq(name, 8, Len(name))) = k

\* name is the column name of the header cell raw at 1-based position k
IsNameOfHeaderCell(name, raw, k) ==
    /\ name # <<>>
    /\ IF raw.t \in {"null", "undefined"} \/ Stripped(raw.s) = <<>>
       THEN IsColumnLabel(name, k)
       ELSE name = Stripped(raw.s)

\* C5: every column name of a Processed Sheet and of a Parsed Sheet is non-empty; the name
\* of a header cell at 0-based position i is Column_<i+1> when the cell's trimmed text is
\* blank and the trimmed text otherwise.
C5_ColumnNames ==
    /\ \A k \in DOMAIN TheProcessed.columns :
          /\ TheProcessed.columns[k] # <<>>
          /\ HeaderIncluded => IsNameOfHeaderCell(TheProcessed.columns[k], At(TheTarget[1], k - 1), k)
    /\ \A k \in DOMAIN TheSheet.columns :
          IsNameOfHeaderCell(TheSheet.columns[k], CellOrNull(TheSheet.matrix, 0, k - 1), k)

\* the header row " Pad ", "", 5 has given the names "Pad", "Column_2", "5"
C5_Witness ==
    /\ HeaderIncluded
    /\ TheTarget # <<>>
    /\ TheTarget[1] = <<Str(TPadded), Str(<<>>), Num(5)>>
    /\ TheProcessed.columns = << <<80, 97, 100>>, TColumn2, <<53>> >>

\* A CSV reader: fields are separated by commas and records by newlines; a field that
\* starts with a double quote runs to its closing quote, "" inside it standing for one
\* quote.  The last record needs no newline after it.
RECURSIVE ReadCsv(_, _, _, _, _)
ReadCsv(text, field, record, records, inQuotes) ==
    IF text = <<>> THEN Append(records, Append(record, field))
    ELSE LET ch == Head(text) IN
         IF inQuotes
         THEN IF ch = 34
              THEN IF Len(text) > 1 /\ text[2] = 34
                   THEN ReadCsv(Tail(Tail(text)), Append(field, 34), record, records, TRUE)
                   ELSE ReadCsv(Tail(text), field, record, records, FALSE)
              ELSE ReadCsv(Tail(text), Append(field, ch), record, records, TRUE)
         ELSE IF ch = 34 /\ field = <<>> THEN ReadCsv(Tail(text), field, record, records, TRUE)
         ELSE IF ch = 44 THEN ReadCsv(Tail(text), <<>>, Append(record, field), records, FALSE)
         ELSE IF ch = 10 THEN ReadCsv(Tail(text), <<>>, <<>>, Append(records, Append(record, field)), FALSE)
         ELSE ReadCsv(Tail(text), Append(field, ch), record, records, FALSE)

\* the string form of a value: the empty field for null
StringForm(value) == IF value.t \in {"null", "undefined"} THEN <<>> ELSE value.s

\* C6: for a Processed Sheet with at least one column, reading csv gives a header record
\* equal to columns and exactly rows.length data records, each with columns.length fields
\* equal to the string forms of that row's values.
C6_CsvRoundTrip ==
    Len(TheProcessed.columns) > 0 =>
        LET records == ReadCsv(TheProcessed.csv, <<>>, <<>>, <<>>, FALSE)
        IN /\ Len(records) = 1 + Len(TheProcessed.rows)
           /\ records[1] = TheProcessed.columns
           /\ \A i \in DOMAIN TheProcessed.rows :
                 /\ Len(records[i + 1]) = Len(TheProcessed.columns)
                 /\ \A j \in DOMAIN TheProcessed.columns :
                       /\ TheProcessed.columns[j] \in DOMAIN TheProcessed.rows[i]
                       /\ records[i + 1][j] = StringForm(TheProcessed.rows[i][TheProcessed.columns[j]])

Abs(n) == IF n < 0 THEN -n ELSE n

\* C7: the Processed Sheet has at most min(width of the selected range, widest matrix row)
\* columns and at most min(height of the selected range, number of matrix rows) rows, and a
\* matrix with no rows or only zero-width rows yields the canonical empty Processed Sheet
\* whatever the range and the header flag.  (The empty range is the whole extent.)
C7_WithinRangeAndMatrix ==
    LET rows == Len(TheSheet.matrix)
        widest == WidthOf(TheSheet.matrix, 0)
        whole == Trim(TheSelection.range) = <<>>
        rangeWidth == IF whole THEN widest ELSE Abs(typed.c2 - typed.c1) + 1
        rangeHeight == IF whole THEN rows ELSE Abs(typed.r2 - typed.r1) + 1
    IN /\ (whole \/ typed.known) =>
            /\ Len(TheProcessed.columns) <= Min(rangeWidth, widest)
            /\ Len(TheProcessed.rows) <= Min(rangeHeight, rows)
       /\ (rows = 0 \/ widest = 0) => TheProcessed = EmptySheet(TheSheet.name)

\* a cell reference: capital letters, then a decimal numeral that does not start with 0
IsCellRef(text) ==
    LET letters == LettersOf(text)
        digits == DigitsOf(text)
    IN /\ letters # <<>>
       /\ digits # <<>>
       /\ \A i \in DOMAIN digits : IsDigit(digits[i])
       /\ digits[1] # 48

\* range notation: a cell reference, or two of them around a colon
WellFormedRange(text) ==
    \/ IsCellRef(text)
    \/ \E i \in DOMAIN text :
          /\ text[i] = 58
          /\ IsCellRef(SubSeq(text, 1, i - 1))
          /\ IsCellRef(SubSeq(text, i + 1, Len(text)))

\* C8: for a range string that is not range notation, applySelection returns for the sheet
\* the Processed Sheet it returns for the empty range (the entire matrix).  Stated for the
\* matrices that hold at least one cell.
C8_MalformedRangeIsWholeMatrix ==
    (/\ WidthOf(TheSheet.matrix, 0) > 0
     /\ Trim(TheSelection.range) # <<>>
     /\ ~WellFormedRange(Trim(TheSelection.range))) =>
        TheProcessed = processSheet(TheSheet, [present |-> TRUE, range |-> <<>>,
                                               firstRowIsHeader |-> TheSelection.firstRowIsHeader])

\* C9: for a matrix with at least one cell and a well-formed range (top-left corner first)
\* whose rectangle lies beyond the last row and/or the last column, applySelection selects
\* the rectangle whose start row, end row, start column and end column are each clamped
\* into [0, number of rows - 1] and [0, widest row - 1].
C9_OutsideRangeClamps ==
    LET lastRow == Len(TheSheet.matrix) - 1
        lastCol == WidthOf(TheSheet.matrix, 0) - 1
        r1 == Min(typed.r1, lastRow)
        r2 == Min(typed.r2, lastRow)
        c1 == Min(typed.c1, lastCol)
        c2 == Min(typed.c2, lastCol)
    IN (/\ typed.known
        /\ lastRow >= 0 /\ lastCol >= 0
        /\ typed.r1 <= typed.r2 /\ typed.c1 <= typed.c2
        /\ (typed.r1 > lastRow \/ typed.c1 > lastCol)) =>
            /\ TheTarget = Rectangle(TheSheet.matrix, r1, r2, c1, c2)
            /\ Len(TheProcessed.columns) = c2 - c1 + 1
            /\ Len(TheProcessed.rows) = (r2 - r1 + 1) - (IF HeaderIncluded THEN 1 ELSE 0)

\* D4:D4 on the scenario matrix (3 rows, 2 columns) has selected its last cell, 25
C9_Witness ==
    /\ typed = [known |-> TRUE, r1 |-> 3, c1 |-> 3, r2 |-> 3, c2 |-> 3]
    /\ TheSheet.matrix = ScenarioMatrix
    /\ TheProcessed.columns = << <<50, 53>> >>
    /\ TheProcessed.rows = <<>>

\* C10: with firstRowIsHeader = false a selection of N rows and W columns yields N data
\* rows in matrix order, the first selected row included, under the columns Column_1 ..
\* Column_W; with firstRowIsHeader true or absent it yields N - 1 data rows.
C10_HeaderFlagDecidesRows ==
    LET N == Len(TheTarget)
        W == WidthOf(TheTarget, 0)
    IN (N >= 1 /\ W >= 1) =>
        IF TheSelection.firstRowIsHeader = "false"
        THEN /\ Len(TheProcessed.rows) = N
             /\ Len(TheProcessed.columns) = W
             /\ \A j \in 1..W : IsColumnLabel(TheProcessed.columns[j], j)
             /\ \A i \in 1..N, j \in 1..W :
                   TheProcessed.rows[i][TheProcessed.columns[j]] = CellOrNull(TheTarget, i - 1, j - 1)
        ELSE Len(TheProcessed.rows) = N - 1

\* the scenario matrix with an explicit false flag has given three data rows, the first
\* of them the header row of the matrix
C10_Witness ==
    /\ TheSheet.matrix = ScenarioMatrix
    /\ TheSelection.firstRowIsHeader = "false"
    /\ Len(TheProcessed.rows) = 3
    /\ TheProcessed.rows[1][<<67, 111, 108, 117, 109, 110, 95, 49>>] = Str(TName)

-----------------------------------------------------------------------------
(* Properties of applySelection over several sheets (SpecConfig) *)

DefaultEntry == [present |-> TRUE, range |-> <<>>, firstRowIsHeader |-> "true"]

\* a sheet whose name has no entry in the config is processed as under the default entry
NoEntryIsDefault ==
    \A i \in DOMAIN rawWorkbook.sheets :
        rawWorkbook.sheets[i].name \notin DOMAIN selectionConfig.sheets =>
            processedWorkbook.sheets[i] = processSheet(rawWorkbook.sheets[i], DefaultEntry)

\* a step that leaves the workbook and a sheet's own entry as they were (whatever it adds,
\* changes or removes under other names) leaves that sheet's Processed Sheet as it was
OtherEntriesLeaveSheet ==
    rawWorkbook' = rawWorkbook =>
        \A i \in DOMAIN rawWorkbook.sheets :
            LET name == rawWorkbook.sheets[i].name
            IN (/\ (name \in DOMAIN selectionConfig'.sheets) = (name \in DOMAIN selectionConfig.sheets)
                /\ name \in DOMAIN selectionConfig.sheets =>
                      selectionConfig'.sheets[name] = selectionConfig.sheets[name])
               => processedWorkbook'.sheets[i] = processedWorkbook.sheets[i]

\* C12: a sheet with no entry in the config is processed exactly as if its entry were
\* {range: "", firstRowIsHeader: true}, and a sheet's Processed Sheet depends only on its
\* matrix and its own entry: adding, changing or removing entries under other sheet names,
\* names of no sheet of the workbook included, leaves it unchanged.
C12_SheetDependsOnOwnEntry == [](NoEntryIsDefault) /\ [][OtherEntriesLeaveSheet]_vars

\* Sheet1 has no entry while Sheet2 and a name of no sheet have one, and the scenario
\* matrix of Sheet1 has given its two data rows under the header names
C12_Witness ==
    /\ DOMAIN selectionConfig.sheets = {SheetName2, OtherName}
    /\ selectionConfig.sheets[OtherName].firstRowIsHeader = "false"
    /\ rawWorkbook.sheets[1].matrix = ScenarioMatrix
    /\ processedWorkbook.sheets[1].columns = <<TName, TAge>>
    /\ Len(processedWorkbook.sheets[1].rows) = 2

-----------------------------------------------------------------------------
(* Properties of normaliseTableName (SpecNaming) *)

\* non-empty, only a-z, 0-9 and "_", no "_" first or last, no "_" next to another
IsIdentifier(name) ==
    /\ name # <<>>
    /\ \A i \in DOMAIN name : IsLowerAlnum(name[i]) \/ name[i] = 95
    /\ name[1] # 95
    /\ name[Len(name)] # 95
    /\ \A i \in 1..(Len(name) - 1) : ~(name[i] = 95 /\ name[i + 1] = 95)

\* name is "sheet_" followed by the decimal numeral of k
IsSheetLabel(name, k) ==
    /\ Len(name) > 6
    /\ SubSeq(name, 1, 6) = <<115, 104, 101, 101, 116, 95>>
    /\ \A i \in 7..Len(name) : IsDigit(name[i])
    /\ name[7] # 48
    /\ DecimalValue(SubSeq(name, 7, Len(name))) = k

\* the file name without its extension: what precedes its last "."
StemOf(fileName) ==
    LET dots == {i \in DOMAIN fileName : fileName[i] = 46}
    IN IF dots = {} THEN fileName
       ELSE SubSeq(fileName, 1, (CHOOSE i \in dots : \A j \in dots : j <= i) - 1)

IsAsciiAlnum(ch) == IsDigit(ch) \/ IsLetter(ch) \/ (ch >= 97 /\ ch <= 122)
HasAsciiAlnum(text) == \E i \in DOMAIN text : IsAsciiAlnum(text[i])
\* some character of the text is, or has as its lower case, an ASCII letter or digit
HasAlnumInLowerCase(text) == \E i \in DOMAIN text : IsAsciiAlnum(text[i]) \/ text[i] = 8490

-----------------------------------------------------------------------------
(* Properties of the table sync (SpecApp) *)

\* a handler call has run to its end
Completed == last.kind # "none"

\* the sheets of a Processed Workbook with at least one row and at least one column
SheetsWithData(processed) ==
    {i \in DOMAIN processed.sheets :
        Len(processed.sheets[i].rows) >= 1 /\ Len(processed.sheets[i].columns) >= 1}

\* the sheet -> table mapping of a Processed Workbook: its sheets with data under the
\* table names of their positions
MapOf(processed) ==
    [n \in {processed.sheets[i].name : i \in SheetsWithData(processed)} |->
        LET i == CHOOSE j \in SheetsWithData(processed) : processed.sheets[j].name = n
        IN normaliseTableName(processed.fileName, n, i - 1)]

\* C13: after a sync has completed successfully with no other sync in flight beside it,
\* every table name of the sheet -> table mapping is a table the engine holds.
C13_MappedTablesExist ==
    (Completed /\ last.ok /\ last.peers = {} /\ syncs = <<>>) => Values(tableMap) \subseteq tables

\* C14: when the syncs of two selection-config changes have overlapped and have finished
\* without an error, the sheet -> table mapping is that of the config submitted most
\* recently (the stored selectionConfig), whichever of the two completed last.
C14_LatestConfigWins ==
    (/\ Completed /\ last.ok /\ last.kind = "config" /\ last.peers = {"config"}
     /\ syncs = <<>> /\ duckError = Null) =>
        tableMap = MapOf(applySelection(rawWorkbook, selectionConfig))

\* C15: at most one run of syncTablesWithProcessed is in flight at any time.
C15_OneSyncInFlight == Len(syncs) <= 1

\* C16: after a sync has completed successfully with no other sync in flight beside it,
\* and every drop issued has been answered, the engine holds no table other than those
\* named in the mapping.
C16_NoOrphanTables ==
    (Completed /\ last.ok /\ last.peers = {} /\ syncs = <<>> /\ drops = {}) =>
        tables \subseteq Values(tableMap)

\* a step registers tables only for sheets of a suspended call that have data
CreatesOnlyForData ==
    \A name \in tables' \ tables :
        \E k \in DOMAIN syncs :
            \E i \in SheetsWithData(syncs[k].processed) :
                name = normaliseTableName(syncs[k].processed.fileName,
                                          syncs[k].processed.sheets[i].name, i - 1)

\* C17: after a successful sync the sheet -> table mapping has an entry for a sheet if
\* and only if the sheet's Processed output has at least one row and at least one column,
\* and no step registers a table for a sheet with 0 rows or 0 columns.
C17_MappingOmitsEmptySheets ==
    /\ [](Completed /\ last.ok =>
            DOMAIN tableMap = {processedWorkbook.sheets[i].name : i \in SheetsWithData(processedWorkbook)})
    /\ [][CreatesOnlyForData]_vars

\* a selection change has left Sheet1 with a header and no rows: only Sheet2 is mapped
C17_Witness ==
    /\ Completed /\ last.ok /\ last.kind = "config" /\ syncs = <<>>
    /\ processedWorkbook # NoWorkbook
    /\ processedWorkbook.sheets[1].columns # <<>>
    /\ processedWorkbook.sheets[1].rows = <<>>
    /\ DOMAIN tableMap = {SheetName2}

\* a step in which a suspended call ends in failure
SyncFails == Len(syncs') < Len(syncs) /\ ~last'.ok

\* C18: when a registration fails, the call ends there: no table is registered by the
\* step or for the call afterwards, the stored mapping is left as it was, duckError is
\* set to the error message and isProcessing is cleared.
C18_FailedSyncStops ==
    [][SyncFails =>
          /\ tables' \subseteq tables
          /\ Len(syncs') = Len(syncs) - 1
          /\ tableMap' = tableMap
          /\ duckError' = Str(EngineMessage)
          /\ isProcessing' = FALSE]_vars

\* the first upload has failed after Sheet1's table was created: Sheet2 has no table,
\* the mapping is still empty and the error is shown
C18_Witness ==
    /\ Completed /\ ~last.ok /\ last.kind = "upload" /\ syncs = <<>>
    /\ Cardinality(tables) = 1
    /\ tableMap = <<>>
    /\ duckError = Str(EngineMessage)
    /\ ~isProcessing

-----------------------------------------------------------------------------
(* Properties of the Range Selector and of App (SpecApp) *)

\* C21: after another sheet has been selected in the Range Selector no onConfigChange
\* call is made: the drag made on the sheet selected before is not committed for the
\* sheet selected now.
C21_SheetSwitchIsSilent == lastEvent.kind = "sheet" => notified = 0

\* C22: after a sync has failed (alone, every drop answered), the table names offered to
\* the query and chat consumers, availableTables and selectedTableName, are tables the
\* engine holds.
C22_FailedSyncListsNoAbsentTable ==
    (Completed /\ ~last.ok /\ last.peers = {} /\ syncs = <<>> /\ drops = {}) =>
        /\ availableTables \subseteq tables
        /\ selectedTableName # <<>> => selectedTableName \in tables

\* a step that changes the selection is an accepted pointer-down, which sets start and
\* end to one cell and starts the drag, or a pointer-enter while dragging, which leaves
\* start as it was
SelectionFollowsPointer ==
    selection' # selection =>
        \/ ~isProcessing /\ isSelecting' /\ selection'.start = selection'.end
        \/ isSelecting /\ isSelecting' /\ selection'.start = selection.start

\* a step in which the selector is not dragging afterwards (a pointer-up among them)
\* leaves start and end as they were
SelectionKeptWhenIdle == ~isSelecting' => selection' = selection

\* C23: start is the cell of the latest accepted pointer-down and end that cell or the
\* cell of the latest pointer-enter received while dragging; a pointer-up and any step
\* while idle change neither, so the last (start, end) pair is kept after the drag.
C23_SelectionTracksDrag == [][SelectionFollowsPointer /\ SelectionKeptWhenIdle]_vars

\* a drag from one cell to another has ended and the pair is still held
C23_Witness ==
    /\ lastEvent.kind = "mouseup" /\ ~isSelecting
    /\ selection.start # NoCell /\ selection.end # NoCell
    /\ selection.start # selection.end

-----------------------------------------------------------------------------
(* Properties of the engine singletons (SpecEngine) *)

\* C24: under every interleaving of first-use calls of getDuckDB, getDuckDBConnection,
\* registerCsvAsTable, runQuery and dropTable, instantiateDuckDB is called at most once
\* and db.connect() at most once.
C24_OneEngineOneConnection == instantiations <= 1 /\ connections <= 1

\* three callers wait on the one connection being opened, of the one engine
C24_Witness ==
    /\ Len(callers) = 3
    /\ \A k \in DOMAIN callers : callers[k].at = "connection"
    /\ \E k \in DOMAIN callers : callers[k].fn = "registerCsvAsTable"
    /\ connectionPromise = "pending" /\ opening = "connect"
    /\ instantiations = 1 /\ connections = 1

-----------------------------------------------------------------------------
(* Properties of the data records (Spec) *)

\* the range was written from two cells, top-left first, both inside the matrix
RangeInsideMatrix ==
    /\ typed.known
    /\ typed.r1 <= typed.r2 /\ typed.c1 <= typed.c2
    /\ typed.r2 < Len(TheSheet.matrix)
    /\ typed.c2 < WidthOf(TheSheet.matrix, 0)

\* C25: for a well-formed range inside the matrix with top-left cell (r0, c0), record i
\* holds at column position j the matrix cell (r0 + i + h, c0 + j), h being 1 when the
\* first row is the header and 0 otherwise, and null where the matrix row is too short.
C25_RecordsAreMatrixCells ==
    RangeInsideMatrix =>
        LET h == IF HeaderIncluded THEN 1 ELSE 0
        IN /\ Len(TheProcessed.columns) = typed.c2 - typed.c1 + 1
           /\ Len(TheProcessed.rows) = typed.r2 - typed.r1 + 1 - h
           /\ \A i \in DOMAIN TheProcessed.rows, j \in DOMAIN TheProcessed.columns :
                 /\ TheProcessed.columns[j] \in DOMAIN TheProcessed.rows[i]
                 /\ TheProcessed.rows[i][TheProcessed.columns[j]] =
                        CellOrNull(TheSheet.matrix, typed.r1 + (i - 1) + h, typed.c1 + (j - 1))

-----------------------------------------------------------------------------
(* Properties of the table names of one workbook (SpecNaming) *)

\* C26: the sheets of one workbook, which have distinct names and distinct positions,
\* never get the same table name from normaliseTableName.
C26_DistinctTableNames ==
    tableName # <<>> =>
        \A other \in SheetNames, index \in SheetIndexes :
            (other # nameInput.sheetName /\ index # nameInput.index) =>
                normaliseTableName(nameInput.fileName, other, index) # tableName

-----------------------------------------------------------------------------
(* Properties of App after an upload (SpecApp) *)

\* nothing is in flight and no effect is due
Quiescent == syncs = <<>> /\ parsing = <<>> /\ drops = {} /\ ~EffectsDue

\* C27: once an upload has completed successfully and the application has come to rest
\* with no user event since, the stored selection config is the default config of the new
\* workbook: every sheet has {range: "", firstRowIsHeader: true} and no other name has an
\* entry (no error is displayed).
C27_UploadResetsConfig ==
    (lastEvent = Uploaded /\ Quiescent /\ duckError = Null) =>
        selectionConfig = createDefaultSelectionConfig(rawWorkbook)

\* C28: whenever no sync is in flight and no error is displayed, the displayed Processed
\* Workbook is applySelection of the stored raw workbook under the stored selection
\* config.
C28_DisplayedIsApplied ==
    (rawWorkbook # NoWorkbook /\ syncs = <<>> /\ ~isProcessing /\ duckError = Null) =>
        processedWorkbook = applySelection(rawWorkbook, selectionConfig)

\* C29: while the Range Selector is disabled (isProcessing), no pointer event changes the
\* selection, and no pointer event is followed by a config-update notification.
PointerIgnoredWhileDisabled ==
    /\ (isProcessing /\ events' # events) => selection' = selection
    /\ (isProcessing /\ lastEvent.kind \in {"drag", "mouseup"}) => notified' <= notified
C29_DisabledIgnoresPointer == [][PointerIgnoredWhileDisabled]_vars

-----------------------------------------------------------------------------
(* Liveness of the handlers (SpecAppFair) *)

\* C30: provided every engine call eventually returns or fails, whenever isProcessing is
\* true (an upload or a selection-config change has started a sync) it eventually becomes
\* false, on the success path and on the failure path alike.
C30_ProcessingEventuallyCleared == isProcessing ~> ~isProcessing

C30_Witness ==
    /\ last.kind = "config" /\ ~last.ok /\ last.peers = {}
    /\ syncs = <<>> /\ ~isProcessing /\ duckError = Str(EngineMessage)

====
